---- MODULE Spec2Model ----
(***************************************************************************)
(* Model of the batch engine of mcp-batch-server (src/src/index.ts):       *)
(* request validation, grouping by type, the shared concurrency limiter,   *)
(* the per-operation retry loop and the aggregation of results and errors. *)
(*                                                                         *)
(* One action is one run-to-completion segment of the Node event loop: the *)
(* code between two awaits.  Continuations that are ready at the same time *)
(* (the limiter's next(), the handler after Promise.all) run in any order.  *)
(* Operations are named by their 1-based index in request.operations.      *)
(***************************************************************************)
EXTENDS Integers, Sequences, FiniteSets, TLC

VARIABLES
  request,      \* the arguments of the tool call (args)
  phase,        \* "Pending" | "Running" | "Returned": position of handleBatchFileOperations
  grouped,      \* the handler's grouped: the groups, as sequences of operation indices
  groupIdx,     \* 1-based index of the group the for loop is awaiting (0 before the loop)
  queue,        \* p-limit: operations waiting for a slot, FIFO
  activeCount,  \* p-limit: slots taken
  holding,      \* p-limit: operations whose run() took a slot and has not called next() yet
  st,           \* per operation: "idle" | "queued" | "executing" | "backoff" | "fulfilled" | "rejected"
  attempt,      \* per operation: the retry loop's variable attempt
  call,         \* per operation: index of the fs call the current attempt awaits
  lastError,    \* per operation: the retry loop's variable lastError
  results,      \* the handler's results array
  errors,       \* the handler's errors array
  response,     \* what the tool call returned
  fsLog,        \* file-system calls issued so far: set of <<operation, call name>>
  tries,        \* history: attempts begun, per operation
  fails,        \* history: attempts that threw, per operation
  thrown,       \* history: the error thrown by the latest failed attempt, per operation
  waited,       \* history: total backoff delay requested, in ms, per operation
  turn,         \* two runs in step: "first" | "second", the run the variables above hold
  event,        \* two runs in step: the step the first run took and the second has yet to take
  other         \* two runs in step: the request and the state of the run not held above

limiterVars == <<queue, activeCount, holding>>
execVars == <<st, attempt, call, lastError, results, errors, fsLog, tries, fails, thrown, waited>>
pairVars == <<turn, event, other>>
vars == <<request, phase, grouped, groupIdx, limiterVars, execVars, response, pairVars>>

---------------------------------------------------------------------------
(* Bounds of the model and the inputs it draws.                            *)

MaxOps == 2
MaxGroupOps == 4

\* Program constants.
MinConcurrent == 1
MaxConcurrentLimit == 100
DefaultMaxConcurrent == 10
MinTimeoutMs == 1000
DefaultTimeoutMs == 30000
MinRetryAttempts == 0
MaxRetryAttempts == 3
DefaultRetryAttempts == 1
BackoffUnitMs == 1000

OperationTypes == {"create", "read", "update", "delete", "copy", "move"}

\* An operation as it arrives: its type, the JS type of its path, and whether
\* destination is a non-empty string.  A number option is an integer, except
\* maxConcurrent: it is the number maxConcurrent when maxConcurrentIsInteger,
\* and a number strictly between maxConcurrent and maxConcurrent + 1 otherwise.
OperationInputs ==
  [type : OperationTypes \cup {"chmod"}, pathType : {"string", "number"},
   hasDestination : BOOLEAN]

\* The operations the batch runs draw from (a run's cost grows with each shape).
RunShapes ==
  { [type |-> "create", pathType |-> "string", hasDestination |-> FALSE],
    [type |-> "read",   pathType |-> "string", hasDestination |-> FALSE],
    [type |-> "copy",   pathType |-> "string", hasDestination |-> FALSE],
    [type |-> "copy",   pathType |-> "string", hasDestination |-> TRUE],
    [type |-> "chmod",  pathType |-> "string", hasDestination |-> FALSE],
    [type |-> "create", pathType |-> "number", hasDestination |-> FALSE] }

OptionInputs ==
  [maxConcurrent : {0, 1, 2, 101}, maxConcurrentIsInteger : BOOLEAN,
   timeoutMs : {999, 1000}, stopOnError : BOOLEAN, retryAttempts : {-1, 0, 1, 4},
   groupByType : BOOLEAN]

\* Every option the executor accepts, for a request of one operation.
ExecOptionInputs ==
  [maxConcurrent : {1}, maxConcurrentIsInteger : {TRUE}, timeoutMs : {1000},
   stopOnError : BOOLEAN, retryAttempts : -1 .. 4, groupByType : {TRUE}]

SeqsUpTo(S, n) == UNION { [1 .. k -> S] : k \in 0 .. n }

\* A request: operations, and options when hasOptions (options is ignored otherwise).
Requests ==
  [operations : SeqsUpTo(RunShapes, MaxOps), hasOptions : {TRUE}, options : OptionInputs]
  \cup
  [operations : SeqsUpTo(RunShapes, MaxOps), hasOptions : {FALSE},
   options : {[maxConcurrent |-> 0, maxConcurrentIsInteger |-> TRUE, timeoutMs |-> 0,
               stopOnError |-> TRUE, retryAttempts |-> 0, groupByType |-> FALSE]}]

\* Valid requests with stopOnError set, for the runs checked under fairness.
StopShapes ==
  { [type |-> "create", pathType |-> "string", hasDestination |-> FALSE],
    [type |-> "read",   pathType |-> "string", hasDestination |-> FALSE],
    [type |-> "move",   pathType |-> "string", hasDestination |-> FALSE] }

StopRequests ==
  [operations : SeqsUpTo(StopShapes, MaxOps), hasOptions : {TRUE},
   options : [maxConcurrent : {1, 2}, maxConcurrentIsInteger : {TRUE},
              timeoutMs : {1000}, stopOnError : {TRUE}, retryAttempts : {0, 1},
              groupByType : BOOLEAN]]

\* Valid requests for the comparison of two runs that differ in one option.
PairRequests ==
  [operations : SeqsUpTo(StopShapes, MaxOps), hasOptions : {TRUE},
   options : [maxConcurrent : {1, 2}, maxConcurrentIsInteger : {TRUE},
              timeoutMs : {MinTimeoutMs, DefaultTimeoutMs}, stopOnError : BOOLEAN, retryAttempts : {0, 1},
              groupByType : BOOLEAN]]

\* Valid requests with either stopOnError, for the termination of a call.
LiveRequests ==
  [operations : SeqsUpTo(StopShapes, MaxOps), hasOptions : {TRUE},
   options : [maxConcurrent : {1, 2}, maxConcurrentIsInteger : BOOLEAN,
              timeoutMs : {1000}, stopOnError : BOOLEAN, retryAttempts : {0, 1},
              groupByType : BOOLEAN]]

\* Valid requests of up to MaxGroupOps operations of any types, for the grouping.
GroupShapes == [type : OperationTypes, pathType : {"string"}, hasDestination : {TRUE}]

GroupRequests ==
  [operations : SeqsUpTo(GroupShapes, MaxGroupOps), hasOptions : {TRUE},
   options : [maxConcurrent : {1}, maxConcurrentIsInteger : {TRUE}, timeoutMs : {1000},
              stopOnError : {FALSE}, retryAttempts : {0}, groupByType : BOOLEAN]]

ExecRequests ==
  [operations : [1 .. 1 -> OperationInputs], hasOptions : {TRUE}, options : ExecOptionInputs]

---------------------------------------------------------------------------
(* Request Validator: the zod schemas.                                     *)

FileOperationSchemaOk(op) ==
  /\ op.type \in OperationTypes
  /\ op.pathType = "string"

\* z.number().max(limit) on maxConcurrent: a number that is not an integer is
\* at most limit exactly when its integer part is below limit.
MaxConcurrentAtMost(o, limit) ==
  IF o.maxConcurrentIsInteger THEN o.maxConcurrent <= limit ELSE o.maxConcurrent < limit

\* Mutant: retryAttempts has no upper limit.
BatchOptionsSchemaOk_NoRetryMax(o) ==
  /\ o.maxConcurrent >= MinConcurrent
  /\ MaxConcurrentAtMost(o, MaxConcurrentLimit)
  /\ o.timeoutMs >= MinTimeoutMs
  /\ o.retryAttempts >= MinRetryAttempts

BatchOptionsSchemaOk(o) ==
  /\ o.maxConcurrent >= MinConcurrent
  /\ MaxConcurrentAtMost(o, MaxConcurrentLimit)
  /\ o.timeoutMs >= MinTimeoutMs
  /\ o.retryAttempts >= MinRetryAttempts
  /\ o.retryAttempts <= MaxRetryAttempts

BatchRequestSchemaOk(req) ==
  /\ \A i \in 1 .. Len(req.operations) : FileOperationSchemaOk(req.operations[i])
  /\ req.hasOptions => BatchOptionsSchemaOk(req.options)

\* The path of the first issue zod reports: operations are checked before options.
FirstIssue(req) ==
  IF \E i \in 1 .. Len(req.operations) : ~FileOperationSchemaOk(req.operations[i])
  THEN LET i == CHOOSE j \in 1 .. Len(req.operations) :
                  /\ ~FileOperationSchemaOk(req.operations[j])
                  /\ \A k \in 1 .. j - 1 : FileOperationSchemaOk(req.operations[k])
       IN IF req.operations[i].type \notin OperationTypes
          THEN <<"operations", i, "type">>
          ELSE <<"operations", i, "path">>
  ELSE IF req.options.maxConcurrent < MinConcurrent
            \/ ~MaxConcurrentAtMost(req.options, MaxConcurrentLimit)
  THEN <<"options", 0, "maxConcurrent">>
  ELSE IF req.options.timeoutMs < MinTimeoutMs
  THEN <<"options", 0, "timeoutMs">>
  ELSE <<"options", 0, "retryAttempts">>

DefaultOptions ==
  [maxConcurrent |-> DefaultMaxConcurrent, maxConcurrentIsInteger |-> TRUE,
   timeoutMs |-> DefaultTimeoutMs,
   stopOnError |-> FALSE, retryAttempts |-> DefaultRetryAttempts, groupByType |-> TRUE]

\* opts of handleBatchFileOperations: the defaults overridden by the request's options.
ResolveOptions(req) == IF req.hasOptions THEN req.options ELSE DefaultOptions

Opts == ResolveOptions(request)
Ops == request.operations
NumOps == Len(Ops)
OpIds == 1 .. NumOps

---------------------------------------------------------------------------
(* Grouping Policy.                                                        *)

\* groups is the Map in insertion order: a sequence of [type, members].
RECURSIVE GroupFold(_, _, _)
GroupFold(ops, i, groups) ==
  IF i > Len(ops) THEN groups
  ELSE LET t == ops[i].type
           has == \E k \in 1 .. Len(groups) : groups[k].type = t
           withKey == IF has THEN groups
                      ELSE Append(groups, [type |-> t, members |-> <<>>])
           pushed == [k \in 1 .. Len(withKey) |->
                        IF withKey[k].type = t
                        THEN [withKey[k] EXCEPT !.members = Append(@, i)]
                        ELSE withKey[k]]
       IN GroupFold(ops, i + 1, pushed)

\* Mutant: the groups come out in the reverse of the Map's insertion order.
groupOperationsByType_Reversed(ops) ==
  LET groups == GroupFold(ops, 1, <<>>)
  IN [k \in 1 .. Len(groups) |-> groups[Len(groups) + 1 - k].members]

groupOperationsByType(ops) ==
  LET groups == GroupFold(ops, 1, <<>>)
  IN [k \in 1 .. Len(groups) |-> groups[k].members]

\* Mutant: groupByType is ignored and the operations are always grouped by type.
GroupedOf_AlwaysByType(req) == groupOperationsByType(req.operations)

\* grouped of handleBatchFileOperations, as sequences of operation indices.
GroupedOf(req) ==
  IF ResolveOptions(req).groupByType
  THEN groupOperationsByType(req.operations)
  ELSE << [i \in 1 .. Len(req.operations) |-> i] >>

\* The group an operation belongs to.
GroupOf(i) == CHOOSE g \in 1 .. Len(grouped) : \E k \in 1 .. Len(grouped[g]) : grouped[g][k] = i

\* The operations of a group.
Members(group) == {group[k] : k \in 1 .. Len(group)}

---------------------------------------------------------------------------
(* Operation Executor: executeFileOperation and the wrapper passed to the  *)
(* limiter.  The operators below map a record of the execution variables   *)
(* to its successor; an action commits the record it ends with.            *)

Cur ==
  [st |-> st, attempt |-> attempt, call |-> call, lastError |-> lastError,
   results |-> results, errors |-> errors, fsLog |-> fsLog,
   tries |-> tries, fails |-> fails, thrown |-> thrown, waited |-> waited]

Commit(s) ==
  /\ st' = s.st
  /\ attempt' = s.attempt
  /\ call' = s.call
  /\ lastError' = s.lastError
  /\ results' = s.results
  /\ errors' = s.errors
  /\ fsLog' = s.fsLog
  /\ tries' = s.tries
  /\ fails' = s.fails
  /\ thrown' = s.thrown
  /\ waited' = s.waited

NoError == <<>>

\* The fs calls one attempt of an operation awaits, in order.
FsCalls(op) ==
  CASE op.type = "create" -> <<"mkdir", "writeFile">>
    [] op.type = "read"   -> <<"readFile">>
    [] op.type = "update" -> <<"appendFile">>
    [] op.type = "delete" -> <<"unlink">>
    [] op.type = "copy"   -> <<"mkdir", "copyFile">>
    [] op.type = "move"   -> <<"mkdir", "rename">>

\* Mutant: only copy checks its destination.
DestinationMissing_CopyOnly(op) == op.type = "copy" /\ ~op.hasDestination

\* if (!operation.destination) throw ..., in the copy and move cases.
DestinationMissing(op) == op.type \in {"copy", "move"} /\ ~op.hasDestination

DestinationRequired(op) == <<"Destination required for", op.type>>

\* The message of the error an fs call rejects with.
FsError(c) == <<"fs error in", c>>

\* The value a successful attempt returns.
SuccessValue(i, a) ==
  IF Ops[i].type = "read"
  THEN [type |-> Ops[i].type, path |-> i, content |-> "content"]
  ELSE [type |-> Ops[i].type, path |-> i, success |-> TRUE, attempt |-> a + 1]

\* Mutant: no further attempt once the backoff waits have used up timeoutMs.
LoopContinues_WithinTimeout(a) ==
  /\ a <= Opts.retryAttempts
  /\ (BackoffUnitMs * a * (a + 1)) \div 2 < Opts.timeoutMs

\* Mutant: the loop stops one attempt early.
LoopContinues_OffByOne(a) == a < Opts.retryAttempts

\* for (...; attempt <= maxRetries; ...)
LoopContinues(a) == a <= Opts.retryAttempts

\* if (attempt < maxRetries) await <backoff>
RetryRemains(a) == a < Opts.retryAttempts

\* Mutant: the same delay before every retry.
BackoffMs_Constant(a) == BackoffUnitMs

\* setTimeout(resolve, 1000 * (attempt + 1))
BackoffMs(a) == BackoffUnitMs * (a + 1)

\* lastError = error as Error
LastErrorAfterCatch(prev, error) == error

\* error instanceof Error ? error.message : 'Unknown error'
ErrorMessage(error) == IF error = NoError THEN <<"Unknown error">> ELSE error

\* The failure record pushed to errors.
ErrorInfo(i, error) == [operation |-> i, error |-> ErrorMessage(error), status |-> "failed"]

\* Mutant: the wrapper rethrows whatever stopOnError says.
SettleAfterError_AlwaysThrow == "rejected"

\* The promise of the limited function after its catch block.
SettleAfterError == IF Opts.stopOnError THEN "rejected" ELSE "fulfilled"

\* throw lastError, caught by the wrapper: errors.push(errorInfo), then rethrow or return.
ThrowLast(s, i) ==
  [s EXCEPT !.errors = Append(@, ErrorInfo(i, s.lastError[i])),
            !.st[i] = SettleAfterError]

RECURSIVE BeginAttempt(_, _, _)
RECURSIVE NextIteration(_, _, _)
RECURSIVE HandleFailure(_, _, _)

\* The catch block of the retry loop, for the error of attempt s.attempt[i].
HandleFailure(s, i, error) ==
  LET s1 == [s EXCEPT !.lastError[i] = LastErrorAfterCatch(@, error),
                      !.thrown[i] = error,
                      !.fails[i] = @ + 1]
  IN IF RetryRemains(s.attempt[i])
     THEN [s1 EXCEPT !.st[i] = "backoff",
                     !.waited[i] = @ + BackoffMs(s.attempt[i])]
     ELSE NextIteration(s1, i, s.attempt[i] + 1)

\* The loop test with attempt = a: another attempt, or throw lastError.
NextIteration(s, i, a) ==
  IF LoopContinues(a) THEN BeginAttempt(s, i, a) ELSE ThrowLast(s, i)

\* The body of the loop up to its first await.
BeginAttempt(s, i, a) ==
  LET s1 == [s EXCEPT !.attempt[i] = a, !.tries[i] = @ + 1]
  IN IF DestinationMissing(Ops[i])
     THEN HandleFailure(s1, i, DestinationRequired(Ops[i]))
     ELSE [s1 EXCEPT !.st[i] = "executing",
                     !.call[i] = 1,
                     !.fsLog = @ \cup {<<i, FsCalls(Ops[i])[1]>>}]

\* The awaited fs call resolved: the next call of the attempt, or the return.
AfterFsSuccess(s, i) ==
  IF s.call[i] < Len(FsCalls(Ops[i]))
  THEN [s EXCEPT !.call[i] = @ + 1,
                 !.fsLog = @ \cup {<<i, FsCalls(Ops[i])[s.call[i] + 1]>>}]
  ELSE [s EXCEPT !.results = Append(@, [operation |-> i,
                                        result |-> SuccessValue(i, s.attempt[i]),
                                        status |-> "success"]),
                 !.st[i] = "fulfilled"]

Settled(i) == st[i] \in {"fulfilled", "rejected"}
InFlight(i) == st[i] \in {"executing", "backoff"}

\* Mutant: an fs call is abandoned once the handler has returned.
AwaitingFs_UntilReturn(i) == st[i] = "executing" /\ phase # "Returned"

\* The attempt of operation i is awaiting an fs call.
AwaitingFs(i) == st[i] = "executing"

---------------------------------------------------------------------------
(* Concurrency Limiter: limit = pLimit(opts.maxConcurrent).                *)

\* pLimit(concurrency) throws a TypeError unless concurrency is an integer (or
\* Infinity, which JSON cannot carry) greater than 0.
PLimitAccepts(o) == o.maxConcurrentIsInteger /\ o.maxConcurrent > 0

ConcurrencyTypeError == <<"Expected concurrency to be a number from 1 and up">>

\* Mutant: with stopOnError the operations run one at a time.
SlotFree_SerialOnStopOnError(active) ==
  active < (IF Opts.stopOnError THEN 1 ELSE Opts.maxConcurrent)

\* Mutant: one slot too many.
SlotFree_OffByOne(active) == active <= Opts.maxConcurrent

\* activeCount < concurrency
SlotFree(active) == active < Opts.maxConcurrent

\* run(): take a slot and call the limited function.
RunNext ==
  LET i == Head(queue)
  IN /\ queue' = Tail(queue)
     /\ activeCount' = activeCount + 1
     /\ holding' = holding \cup {i}
     /\ Commit(NextIteration(Cur, i, 0))

---------------------------------------------------------------------------
(* Batch Coordinator: handleBatchFileOperations behind the tool-call       *)
(* boundary.                                                               *)

NoResponse == [kind |-> "none"]

\* The catch of the tool-call handler: text `Error: ${error.message}`.
ErrorPayload(message) == [kind |-> "error", prefix |-> "Error: ", message |-> message]

\* Mutant: successful is the number of operations not in errors.
Summary_SuccessfulByDifference ==
  [kind |-> "summary", total |-> Len(Ops), successful |-> Len(Ops) - Len(errors),
   failed |-> Len(errors), results |-> results, errors |-> errors]

\* The summary, serialised when the handler returns.
Summary ==
  [kind |-> "summary", total |-> Len(Ops), successful |-> Len(results),
   failed |-> Len(errors), results |-> results, errors |-> errors]

\* group.map(op => limit(...)): every operation of the group joins the limiter's queue.
Submit(group) ==
  /\ queue' = queue \o group
  /\ Commit([Cur EXCEPT !.st = [i \in OpIds |-> IF i \in Members(group) THEN "queued" ELSE st[i]]])
  /\ UNCHANGED <<activeCount, holding>>

Return ==
  /\ phase' = "Returned"
  /\ response' = Summary
  /\ UNCHANGED <<groupIdx, limiterVars, execVars>>

\* Mutant: Promise.all(promises) is not awaited.
PromiseAllFulfilled_NotAwaited(g) == TRUE

\* await Promise.all(promises) of group g resolved / rejected.
PromiseAllFulfilled(g) == \A i \in Members(grouped[g]) : st[i] = "fulfilled"
PromiseAllRejected(g) == \E i \in Members(grouped[g]) : st[i] = "rejected"

\* Mutant: the loop over grouped goes on after a rejection.
BreakOnReject_Never == FALSE

\* catch (error) { if (opts.stopOnError) break; }
BreakOnReject == Opts.stopOnError

\* The next iteration of the loop over grouped, or the end of the loop.
Advance ==
  IF groupIdx < Len(grouped)
  THEN /\ groupIdx' = groupIdx + 1
       /\ Submit(grouped[groupIdx + 1])
       /\ UNCHANGED <<phase, response>>
  ELSE Return

\* The tool call arrives: parse, resolve the options, group, create the limiter,
\* submit the first group.  An exception thrown on the way is caught by the
\* request handler, which returns its message as an error payload.
Call ==
  /\ phase = "Pending"
  /\ UNCHANGED request
  /\ IF ~BatchRequestSchemaOk(request)
     THEN /\ phase' = "Returned"
          /\ response' = ErrorPayload(FirstIssue(request))
          /\ UNCHANGED <<grouped, groupIdx, limiterVars, execVars>>
     ELSE /\ grouped' = GroupedOf(request)
          /\ IF ~PLimitAccepts(Opts)
             THEN /\ phase' = "Returned"
                  /\ response' = ErrorPayload(ConcurrencyTypeError)
                  /\ UNCHANGED <<groupIdx, limiterVars, execVars>>
             ELSE IF Len(GroupedOf(request)) = 0
             THEN Return
             ELSE /\ phase' = "Running"
                  /\ groupIdx' = 1
                  /\ Submit(GroupedOf(request)[1])
                  /\ UNCHANGED response

\* The limiter's check after an enqueue: start the head of the queue if a slot is free.
Dequeue ==
  /\ queue # <<>>
  /\ SlotFree(activeCount)
  /\ RunNext
  /\ UNCHANGED <<request, phase, grouped, groupIdx, response>>

\* The fs call operation i awaits resolves.
FsSucceeds(i) ==
  /\ i \in OpIds
  /\ AwaitingFs(i)
  /\ Commit(AfterFsSuccess(Cur, i))
  /\ UNCHANGED <<request, phase, grouped, groupIdx, limiterVars, response>>

\* The fs call operation i awaits rejects.
FsFails(i) ==
  /\ i \in OpIds
  /\ AwaitingFs(i)
  /\ Commit(HandleFailure(Cur, i, FsError(FsCalls(Ops[i])[call[i]])))
  /\ UNCHANGED <<request, phase, grouped, groupIdx, limiterVars, response>>

\* The backoff timer of operation i fires: attempt++ and the loop test.
TimerFires(i) ==
  /\ i \in OpIds
  /\ st[i] = "backoff"
  /\ Commit(NextIteration(Cur, i, attempt[i] + 1))
  /\ UNCHANGED <<request, phase, grouped, groupIdx, limiterVars, response>>

\* Mutant: the slot is also given up while the operation waits before a retry.
Release_DuringBackoff(i) ==
  /\ i \in holding
  /\ Settled(i) \/ st[i] = "backoff"
  /\ IF queue # <<>>
     THEN /\ queue' = Tail(queue)
          /\ activeCount' = (activeCount - 1) + 1
          /\ holding' = (holding \ {i}) \cup {Head(queue)}
          /\ Commit(NextIteration(Cur, Head(queue), 0))
     ELSE /\ activeCount' = activeCount - 1
          /\ holding' = holding \ {i}
          /\ UNCHANGED <<queue, execVars>>
  /\ UNCHANGED <<request, phase, grouped, groupIdx, response>>

\* The limiter's next() after operation i settled: free the slot, start the queue's head.
Release(i) ==
  /\ i \in holding
  /\ Settled(i)
  /\ IF queue # <<>>
     THEN /\ queue' = Tail(queue)
          /\ activeCount' = (activeCount - 1) + 1
          /\ holding' = (holding \ {i}) \cup {Head(queue)}
          /\ Commit(NextIteration(Cur, Head(queue), 0))
     ELSE /\ activeCount' = activeCount - 1
          /\ holding' = holding \ {i}
          /\ UNCHANGED <<queue, execVars>>
  /\ UNCHANGED <<request, phase, grouped, groupIdx, response>>

\* Promise.all of the current group settles and the handler goes on.
GroupSettled ==
  /\ phase = "Running"
  /\ UNCHANGED <<request, grouped>>
  /\ \/ /\ PromiseAllRejected(groupIdx)
        /\ IF BreakOnReject THEN Return ELSE Advance
     \/ /\ PromiseAllFulfilled(groupIdx)
        /\ Advance

InitRun ==
  /\ phase = "Pending"
  /\ grouped = <<>>
  /\ groupIdx = 0
  /\ queue = <<>>
  /\ activeCount = 0
  /\ holding = {}
  /\ st = [i \in 1 .. Len(request.operations) |-> "idle"]
  /\ attempt = [i \in 1 .. Len(request.operations) |-> 0]
  /\ call = [i \in 1 .. Len(request.operations) |-> 0]
  /\ lastError = [i \in 1 .. Len(request.operations) |-> NoError]
  /\ results = <<>>
  /\ errors = <<>>
  /\ response = NoResponse
  /\ fsLog = {}
  /\ tries = [i \in 1 .. Len(request.operations) |-> 0]
  /\ fails = [i \in 1 .. Len(request.operations) |-> 0]
  /\ thrown = [i \in 1 .. Len(request.operations) |-> NoError]
  /\ waited = [i \in 1 .. Len(request.operations) |-> 0]

NoEvent == <<>>

\* One run is observed: there is no other run.
SingleRun == turn = "first" /\ event = NoEvent /\ other = [request |-> NoResponse]

Init == SingleRun /\ request \in Requests /\ InitRun

ExecInit == SingleRun /\ request \in ExecRequests /\ InitRun

StopInit == SingleRun /\ request \in StopRequests /\ InitRun

GroupInit == SingleRun /\ request \in GroupRequests /\ InitRun

LiveInit == SingleRun /\ request \in LiveRequests /\ InitRun

Next ==
  \/ Call /\ UNCHANGED pairVars
  \/ Dequeue /\ UNCHANGED pairVars
  \/ \E i \in 1 .. MaxOps : FsSucceeds(i) /\ UNCHANGED pairVars
  \/ \E i \in 1 .. MaxOps : FsFails(i) /\ UNCHANGED pairVars
  \/ \E i \in 1 .. MaxOps : TimerFires(i) /\ UNCHANGED pairVars
  \/ \E i \in 1 .. MaxOps : Release(i) /\ UNCHANGED pairVars
  \/ GroupSettled /\ UNCHANGED pairVars

\* The run held in the variables: its request and its state.
ThisRun ==
  [request |-> request, phase |-> phase, grouped |-> grouped, groupIdx |-> groupIdx,
   queue |-> queue, activeCount |-> activeCount, holding |-> holding,
   response |-> response, exec |-> Cur]

\* Step A of the event loop, named e: the first run takes it, and then the
\* second run takes the same step.
InStep(e, A) ==
  /\ \/ turn = "first" /\ event = NoEvent /\ event' = e
     \/ turn = "second" /\ event = e /\ event' = NoEvent
  /\ A
  /\ UNCHANGED <<turn, other>>

\* The runs change places: after a step of the first run the second run is
\* brought in to take it, after that the first run is brought back.
Swap ==
  /\ \/ turn = "first" /\ event # NoEvent /\ turn' = "second"
     \/ turn = "second" /\ event = NoEvent /\ turn' = "first"
  /\ other' = ThisRun
  /\ request' = other.request
  /\ phase' = other.phase
  /\ grouped' = other.grouped
  /\ groupIdx' = other.groupIdx
  /\ queue' = other.queue
  /\ activeCount' = other.activeCount
  /\ holding' = other.holding
  /\ response' = other.response
  /\ Commit(other.exec)
  /\ UNCHANGED event

PairRun ==
  \/ InStep(<<"Call", 0>>, Call)
  \/ InStep(<<"Dequeue", 0>>, Dequeue)
  \/ \E i \in 1 .. MaxOps : InStep(<<"FsSucceeds", i>>, FsSucceeds(i))
  \/ \E i \in 1 .. MaxOps : InStep(<<"FsFails", i>>, FsFails(i))
  \/ \E i \in 1 .. MaxOps : InStep(<<"TimerFires", i>>, TimerFires(i))
  \/ \E i \in 1 .. MaxOps : InStep(<<"Release", i>>, Release(i))
  \/ InStep(<<"GroupSettled", 0>>, GroupSettled)

PairNext == PairRun \/ Swap

\* The request with another valid timeoutMs.
TimeoutVariants(req) ==
  {[req EXCEPT !.options.timeoutMs = t] : t \in {MinTimeoutMs, DefaultTimeoutMs} \ {req.options.timeoutMs}}

\* The request with the other stopOnError.
StopOnErrorVariants(req) == {[req EXCEPT !.options.stopOnError = ~@]}

\* Two calls about to be made, the second with the request r2.
PairInit(r2) ==
  /\ InitRun
  /\ turn = "first"
  /\ event = NoEvent
  /\ other = [ThisRun EXCEPT !.request = r2]

TimeoutPairInit ==
  /\ request \in PairRequests
  /\ \E r2 \in TimeoutVariants(request) : PairInit(r2)

StopOnErrorPairInit ==
  /\ request \in PairRequests
  /\ \E r2 \in StopOnErrorVariants(request) : PairInit(r2)

TimeoutPairSpec == TimeoutPairInit /\ [][PairNext]_vars

StopOnErrorPairSpec == StopOnErrorPairInit /\ [][PairNext]_vars

\* Every fs call and every timer eventually completes and the event loop runs
\* every continuation that is ready: a run goes on while a step is possible.
Fairness == WF_vars(Next)

Spec == Init /\ [][Next]_vars

FairSpec == StopInit /\ [][Next]_vars /\ Fairness

ExecSpec == ExecInit /\ [][Next]_vars

LiveSpec == LiveInit /\ [][Next]_vars /\ Fairness

\* The handler up to the submission of the first group, on longer requests.
GroupSpec == GroupInit /\ [][Call /\ UNCHANGED pairVars]_vars

TypeOK ==
  /\ phase \in {"Pending", "Running", "Returned"}
  /\ activeCount = Cardinality(holding)
  /\ \A i \in OpIds : st[i] \in {"idle", "queued", "executing", "backoff", "fulfilled", "rejected"}

---------------------------------------------------------------------------
(* Properties.                                                             *)

Started == {i \in OpIds : tries[i] > 0}
Executing == {i \in OpIds : InFlight(i)}

\* Occurrences of operation i in a sequence of outcome records.
Occ(records, i) == Cardinality({k \in 1 .. Len(records) : records[k].operation = i})

\* The call passed validation and returned a summary.
SummaryReturned == phase = "Returned" /\ response.kind = "summary"

\* C1: the summary returned for a valid request has total equal to the number of
\* input operations and successful + failed equal to the number of operations
\* whose first attempt had begun when the summary was returned.
C1_SummaryCountsStarted ==
  [][(phase # "Returned" /\ phase' = "Returned" /\ response'.kind = "summary")
       => /\ response'.total = NumOps
          /\ response'.successful + response'.failed
               = Cardinality({i \in OpIds : tries'[i] > 0})]_vars

\* C2: the operations admitted by the limiter and not yet settled never number
\* more than maxConcurrent, in any state of a run and across all its groups.
C2_ConcurrencyBound == Cardinality(Executing) <= Opts.maxConcurrent

\* C2 witness: the limit is reached while another operation waits in the queue.
C2_Witness ==
  /\ phase = "Running"
  /\ Cardinality(Executing) = Opts.maxConcurrent
  /\ queue # <<>>

\* C3: an operation of a group has begun only if every operation of every
\* earlier group has settled.
C3_GroupsSequential ==
  \A i \in Started : \A j \in OpIds : GroupOf(j) < GroupOf(i) => Settled(j)

\* C3 witness: under stopOnError an operation of the second group is executing.
C3_Witness ==
  /\ Opts.stopOnError
  /\ \E i \in Executing : GroupOf(i) = 2

\* C4: with stopOnError=false the summary holds every input operation exactly
\* once, in results or in errors, every operation was attempted, and
\* successful + failed = total.
C4_EveryOperationOnce ==
  (SummaryReturned /\ ~Opts.stopOnError)
    => /\ \A i \in OpIds :
            /\ tries[i] > 0
            /\ Occ(response.results, i) + Occ(response.errors, i) = 1
       /\ response.successful + response.failed = response.total
       /\ response.total = NumOps

\* C4 witness: an operation of the first group failed and one of a later group
\* succeeded.
C4_Witness ==
  /\ SummaryReturned
  /\ ~Opts.stopOnError
  /\ \E i, j \in OpIds :
       /\ GroupOf(i) < GroupOf(j)
       /\ Occ(response.errors, i) = 1
       /\ Occ(response.results, j) = 1

\* C5: with stopOnError=true, once an operation has failed no operation of a
\* later group ever begins, and the summary's total is the number of inputs.
C5_LaterGroupsNeverStart ==
  Opts.stopOnError
    => /\ \A j \in OpIds : Occ(errors, j) > 0
            => \A i \in OpIds : GroupOf(i) > GroupOf(j) => tries[i] = 0
       /\ SummaryReturned => response.total = NumOps

\* C5 witness: the summary was returned after a failure in the first of two
\* groups, and every slot has been released since.
C5_Witness ==
  /\ SummaryReturned
  /\ Opts.stopOnError
  /\ holding = {}
  /\ \E i, j \in OpIds : GroupOf(j) < GroupOf(i) /\ Occ(errors, j) > 0

\* C6: with stopOnError=true, after an operation has failed no operation that
\* had not begun executing begins afterwards.
C6_NoStartAfterFailure ==
  [][(Opts.stopOnError /\ errors # <<>>)
       => \A i \in OpIds : tries[i] = 0 => tries'[i] = 0]_vars

\* C7: under stopOnError, the operations in flight when the summary is
\* returned are not cancelled: every operation that was started reaches its own
\* outcome, success, or failure after retryAttempts + 1 attempts.
C7_InFlightRunsOn ==
  (SummaryReturned /\ Opts.stopOnError /\ Executing # {})
    ~> (\A i \in Started :
          /\ Settled(i)
          /\ Occ(results, i) + Occ(errors, i) = 1
          /\ Occ(errors, i) = 1 => tries[i] = Opts.retryAttempts + 1)

\* C7 witness: an operation retried and settled after the summary, which does
\* not hold its outcome.
C7_Witness ==
  /\ SummaryReturned
  /\ Opts.stopOnError
  /\ \E i \in OpIds :
       /\ Settled(i)
       /\ tries[i] > 1
       /\ Occ(response.results, i) + Occ(response.errors, i) = 0

\* C8 as stated: a success after k failed attempts took k + 1 attempts and
\* returns attempt = k + 1, for every operation; a failure took
\* retryAttempts + 1 attempts and records the error of the last one.
C8_RetryAsStated ==
  /\ \A k \in 1 .. Len(results) :
       LET i == results[k].operation
           r == results[k].result
       IN /\ fails[i] <= Opts.retryAttempts
          /\ tries[i] = fails[i] + 1
          /\ "attempt" \in DOMAIN r
          /\ r.attempt = fails[i] + 1
  /\ \A k \in 1 .. Len(errors) :
       LET i == errors[k].operation
       IN /\ tries[i] = Opts.retryAttempts + 1
          /\ fails[i] = tries[i]
          /\ errors[k].error = thrown[i]

\* C8 amended: as C8, except that a successful read returns the operation with
\* its content and no attempt number.
C8_RetryAmended ==
  /\ \A k \in 1 .. Len(results) :
       LET i == results[k].operation
           r == results[k].result
       IN /\ fails[i] <= Opts.retryAttempts
          /\ tries[i] = fails[i] + 1
          /\ Ops[i].type # "read" => ("attempt" \in DOMAIN r /\ r.attempt = fails[i] + 1)
          /\ Ops[i].type = "read" => ("attempt" \notin DOMAIN r /\ "content" \in DOMAIN r)
  /\ \A k \in 1 .. Len(errors) :
       LET i == errors[k].operation
       IN /\ tries[i] = Opts.retryAttempts + 1
          /\ fails[i] = tries[i]
          /\ errors[k].error = thrown[i]

\* C8 witness: an operation succeeded on its fourth attempt.
C8_Witness ==
  \E k \in 1 .. Len(results) :
    /\ "attempt" \in DOMAIN results[k].result
    /\ results[k].result.attempt = 4
    /\ fails[results[k].operation] = 3

\* C9: a copy or move without destination issues no fs call, never succeeds, and
\* settles as one failure with the destination-required error after
\* retryAttempts + 1 attempts.
C9_DestinationRequired ==
  \A i \in OpIds :
    (Ops[i].type \in {"copy", "move"} /\ ~Ops[i].hasDestination)
      => /\ {e \in fsLog : e[1] = i} = {}
         /\ Occ(results, i) = 0
         /\ Settled(i) =>
              /\ tries[i] = Opts.retryAttempts + 1
              /\ Occ(errors, i) = 1
              /\ \A k \in 1 .. Len(errors) :
                   errors[k].operation = i =>
                     /\ errors[k].error = <<"Destination required for", Ops[i].type>>
                     /\ errors[k].status = "failed"

\* C9 witness: a move without destination failed after four attempts.
C9_Witness ==
  \E i \in OpIds :
    /\ Ops[i].type = "move"
    /\ ~Ops[i].hasDestination
    /\ Settled(i)
    /\ tries[i] = 4
    /\ Occ(errors, i) = 1

\* The request breaks the schema in one of the ways C10 lists.
C10_Malformed ==
  \/ \E i \in OpIds :
       \/ Ops[i].type \notin {"create", "read", "update", "delete", "copy", "move"}
       \/ Ops[i].pathType # "string"
  \/ /\ request.hasOptions
     /\ \/ request.options.maxConcurrent < 1
        \/ request.options.maxConcurrent > 100
        \/ request.options.retryAttempts < 0
        \/ request.options.retryAttempts > 3
        \/ request.options.timeoutMs < 1000

\* C10: a request that fails validation starts no operation, issues no fs call,
\* and is answered with the text payload 'Error: <message>'.
C10_ValidationFailure ==
  C10_Malformed
    => /\ fsLog = {}
       /\ Started = {}
       /\ \A i \in OpIds : st[i] = "idle"
       /\ phase # "Running"
       /\ phase = "Returned" => (response.kind = "error" /\ response.prefix = "Error: ")

\* C10 witness: well-formed operations with retryAttempts out of range were
\* answered with the error payload.
C10_Witness ==
  /\ NumOps > 0
  /\ \A i \in OpIds : Ops[i].type = "create" /\ Ops[i].pathType = "string"
  /\ request.hasOptions
  /\ request.options.retryAttempts > 3
  /\ request.options.maxConcurrent = 2
  /\ request.options.timeoutMs = 1000
  /\ phase = "Returned"
  /\ response.kind = "error"
  /\ response.message = <<"options", 0, "retryAttempts">>

\* C11: a request that passes validation is answered with a summary object,
\* never with an error payload, whatever the outcomes of its operations.
C11_ValidReturnsSummary ==
  (phase = "Returned" /\ BatchRequestSchemaOk(request)) => response.kind = "summary"

\* The handler has computed grouped for a request that passed validation.
HasGrouped == phase # "Pending" /\ BatchRequestSchemaOk(request)

\* C12: with groupByType=true every input operation is in exactly one group,
\* every group is non-empty and of one type, no two groups share a type, the
\* groups are in the order in which their types first appear in the input, and
\* the operations of a group are in input order.
C12_GroupByType ==
  (HasGrouped /\ Opts.groupByType) =>
    /\ \A i \in OpIds :
         Cardinality({p \in (1 .. Len(grouped)) \X OpIds :
                        p[2] <= Len(grouped[p[1]]) /\ grouped[p[1]][p[2]] = i}) = 1
    /\ \A g \in 1 .. Len(grouped) :
         /\ Len(grouped[g]) > 0
         /\ \A k \in 1 .. Len(grouped[g]) :
              /\ grouped[g][k] \in OpIds
              /\ Ops[grouped[g][k]].type = Ops[grouped[g][1]].type
              /\ \A l \in 1 .. k - 1 : grouped[g][l] < grouped[g][k]
         /\ \A h \in 1 .. g - 1 :
              /\ Ops[grouped[h][1]].type # Ops[grouped[g][1]].type
              /\ grouped[h][1] < grouped[g][1]

\* C12 witness: four operations of three types, the first type appearing twice
\* with another type in between.
C12_Witness ==
  /\ HasGrouped /\ Opts.groupByType
  /\ NumOps = 4
  /\ Ops[1].type = "read" /\ Ops[2].type = "create"
  /\ Ops[3].type = "read" /\ Ops[4].type = "delete"
  /\ grouped = << <<1, 3>>, <<2>>, <<4>> >>

\* C13: with groupByType=false there is exactly one group, holding all input
\* operations in input order whatever their types, and the whole input is
\* handed to the limiter at once: no operation waits for another type to finish.
C13_SingleGroup ==
  (HasGrouped /\ ~Opts.groupByType) =>
    /\ Len(grouped) = 1
    /\ grouped[1] = [i \in OpIds |-> i]
    /\ phase = "Running" => groupIdx = 1 /\ \A i \in OpIds : st[i] # "idle"

\* C13 witness: a create and a read of one group are awaiting the file system
\* at the same time.
C13_Witness ==
  /\ HasGrouped /\ ~Opts.groupByType
  /\ NumOps = 2
  /\ Ops[1].type = "create" /\ Ops[2].type = "read"
  /\ grouped = << <<1, 2>> >>
  /\ st[1] = "executing" /\ st[2] = "executing"

\* The values executeFileOperation can return for operation i.
ReturnValues(i) == {SuccessValue(i, a) : a \in 0 .. MaxRetryAttempts}

\* The messages executeFileOperation can throw for operation i.
ThrownMessages(i) ==
  {DestinationRequired(Ops[i])} \cup {FsError(FsCalls(Ops[i])[c]) : c \in 1 .. Len(FsCalls(Ops[i]))}

\* errors holds Failure records and the two counts are the lengths of the lists.
FailuresAndCounts ==
  /\ \A k \in 1 .. Len(response.errors) :
       \E i \in OpIds : \E m \in ThrownMessages(i) :
         response.errors[k] = [operation |-> i, error |-> m, status |-> "failed"]
  /\ response.successful = Len(response.results)
  /\ response.failed = Len(response.errors)

\* C14 as stated: in the summary every element of results is a return value of
\* the executor itself, errors holds the Failure records {operation, error,
\* status: failed}, successful = |results| and failed = |errors|.
C14_ResultsArePayloads ==
  SummaryReturned =>
    /\ \A k \in 1 .. Len(response.results) :
         \E i \in OpIds : response.results[k] \in ReturnValues(i)
    /\ FailuresAndCounts

\* C14 amended: every element of results is the Success record {operation,
\* result, status: success} whose result is the executor's return value for
\* that operation; errors, successful and failed are as stated.
C14_ResultsAreOutcomeRecords ==
  SummaryReturned =>
    /\ \A k \in 1 .. Len(response.results) :
         \E i \in OpIds : \E v \in ReturnValues(i) :
           response.results[k] = [operation |-> i, result |-> v, status |-> "success"]
    /\ FailuresAndCounts

\* C14 witness: a summary with one success, of the second attempt, and one failure.
C14_Witness ==
  /\ SummaryReturned
  /\ Len(response.results) = 1 /\ Len(response.errors) = 1
  /\ response.results[1] =
       [operation |-> 1, status |-> "success",
        result |-> [type |-> "create", path |-> 1, success |-> TRUE, attempt |-> 2]]
  /\ response.errors[1] =
       [operation |-> 2, status |-> "failed", error |-> <<"Destination required for", "copy">>]

\* C15: when every fs call and every backoff wait eventually finishes, a call
\* on a valid request eventually returns its summary, no operation stays in
\* the limiter's queue forever, and no operation makes more than
\* retryAttempts + 1 attempts.
C15_CallTerminates ==
  /\ (phase = "Pending" /\ BatchRequestSchemaOk(request)) ~> SummaryReturned
  /\ \A i \in 1 .. MaxOps :
       (i \in OpIds /\ st[i] = "queued") ~> (i \in OpIds /\ st[i] # "queued")
  /\ [](\A i \in OpIds : tries[i] <= Opts.retryAttempts + 1)

\* The backoff waits operation i has requested so far: one after each failed
\* attempt, except after the failure that exhausted the attempts.
WaitsSoFar(i) == IF Occ(errors, i) = 1 THEN fails[i] - 1 ELSE fails[i]

\* C16: the wait after the failed attempt of 0-based index a is 1000 * (a + 1) ms
\* and happens only when a < retryAttempts, before attempt a + 1: after k waits
\* the total is 1000 * k * (k + 1) / 2, an operation in its wait has an attempt
\* left, an operation that failed every attempt waited retryAttempts times
\* (0, 1000, 3000, 6000 ms in total for retryAttempts 0 .. 3), and an operation
\* that never failed never waited.
C16_LinearBackoff ==
  (phase # "Pending" /\ BatchRequestSchemaOk(request)) =>
    \A i \in OpIds :
      /\ waited[i] = (1000 * WaitsSoFar(i) * (WaitsSoFar(i) + 1)) \div 2
      /\ st[i] = "backoff" => attempt[i] < Opts.retryAttempts /\ fails[i] = attempt[i] + 1
      /\ Occ(errors, i) = 1 =>
           /\ WaitsSoFar(i) = Opts.retryAttempts
           /\ waited[i] = <<0, 1000, 3000, 6000>>[Opts.retryAttempts + 1]
      /\ fails[i] = 0 => waited[i] = 0

\* C16 witness: with retryAttempts = 3 an operation has failed all four
\* attempts and waited 6000 ms in all.
C16_Witness ==
  /\ NumOps = 1
  /\ Opts.retryAttempts = 3
  /\ Occ(errors, 1) = 1
  /\ tries[1] = 4
  /\ waited[1] = 6000

\* C19: an operation holds a limiter slot from the start of its first attempt
\* until its final outcome, backoff waits included, so the operations between
\* first attempt and final outcome all count against maxConcurrent; a queued
\* operation starts only in a step that finds a slot free or in which an
\* operation that reached its final outcome gives up its slot, and never in a
\* step in which a running operation enters a backoff wait.
C19_SlotHeldThroughBackoff ==
  /\ [](\A i \in OpIds : InFlight(i) => i \in holding)
  /\ [](PLimitAccepts(Opts) => Cardinality(holding) <= Opts.maxConcurrent)
  /\ [][\A j \in OpIds :
          (st[j] = "queued" /\ st'[j] # "queued") =>
            /\ \/ Cardinality(holding) < Opts.maxConcurrent
               \/ \E i \in holding : st[i] \in {"fulfilled", "rejected"} /\ i \notin holding'
            /\ \A i \in holding : st[i] = "backoff" \/ st'[i] # "backoff"]_vars

\* C19 witness: with maxConcurrent = 1 the first operation is in a backoff wait
\* and the second is still queued.
C19_Witness ==
  /\ phase = "Running"
  /\ Opts.maxConcurrent = 1
  /\ NumOps = 2
  /\ st[1] = "backoff" /\ 1 \in holding
  /\ st[2] = "queued" /\ queue = <<2>>

\* The state of a run, its request left out.
StateOf(r) == [r EXCEPT !.request = NoResponse]

\* The second run has just taken the step the first run took before it.
BothStepped == turn = "second" /\ event = NoEvent

\* The first run has taken a step the second run has yet to take.
SecondToStep == turn = "second" /\ event # NoEvent

\* C17: two runs of the same request that differ only in timeoutMs, under the
\* same file-system outcomes and the same scheduling, go through the same
\* states step by step (the same attempts in the same order, the same
\* summary), the second run can always take the step the first took, and an
\* operation is recorded as failed only with an error its attempts threw and
\* after all retryAttempts + 1 attempts: none is cut short by elapsed time.
C17_TimeoutHasNoEffect ==
  /\ BothStepped => StateOf(ThisRun) = StateOf(other)
  /\ SecondToStep => ENABLED PairRun
  /\ \A k \in 1 .. Len(errors) :
       /\ errors[k].error \in ThrownMessages(errors[k].operation)
       /\ tries[errors[k].operation] = Opts.retryAttempts + 1

\* C17 witness: both runs have returned the same summary, holding a failure,
\* although an operation's backoff alone lasted as long as the timeoutMs of
\* one of the runs.
C17_Witness ==
  /\ BothStepped
  /\ SummaryReturned
  /\ request.options.timeoutMs # other.request.options.timeoutMs
  /\ response = other.response
  /\ response.failed > 0
  /\ \E i \in OpIds : waited[i] >= MinTimeoutMs

\* C18: after a call has returned its summary none of its operations is still
\* executing or queued, the operations in flight never outnumber the call's
\* own maxConcurrent, and the summary holds outcomes of the call's own
\* operations only.  (results, errors and the limiter are locals of the
\* handler: each of two overlapping calls is a run of this model of its own.)
C18_CallsShareNothing ==
  /\ Cardinality(Executing) <= Opts.maxConcurrent
  /\ SummaryReturned =>
       /\ \A k \in 1 .. Len(response.results) : response.results[k].operation \in OpIds
       /\ \A k \in 1 .. Len(response.errors) : response.errors[k].operation \in OpIds
       /\ \A i \in OpIds : st[i] \notin {"queued", "executing", "backoff"}

\* C20: two runs of the same request that differ only in stopOnError, under
\* the same file-system outcomes and the same scheduling, go through the same
\* states step by step for as long as no operation has failed for good, and
\* the second run can always take the step the first took: when every
\* operation succeeds in the end they attempt the same operations in the same
\* order and return the same summary.
C20_StopOnErrorOnlyOnFailure ==
  /\ (BothStepped /\ other.exec.errors = <<>>) => StateOf(ThisRun) = StateOf(other)
  /\ (SecondToStep /\ other.exec.errors = <<>>) => ENABLED PairRun

\* C20 witness: both runs have returned the same summary of two successes, one
\* of them after a failed attempt, with two groups run one after the other.
C20_Witness ==
  /\ BothStepped
  /\ SummaryReturned
  /\ request.options.stopOnError # other.request.options.stopOnError
  /\ response = other.response
  /\ NumOps = 2
  /\ response.successful = 2 /\ response.failed = 0
  /\ Len(grouped) = 2
  /\ \E i \in OpIds : fails[i] > 0

====
